---- MODULE Spec2Model ----
(***************************************************************************)
(* scripts/14_protein_structure_analysis.py as a state machine.            *)
(*                                                                         *)
(* The script is one straight-line pass: banner, mkdir of the results      *)
(* directory, a loop over the isoforms mapping that builds one record per  *)
(* protein, a DataFrame of the records written as CSV, and a summary.      *)
(* The state is the script's module-level variables, its position, what    *)
(* it printed, and the part of the filesystem it touches.  Re-invoking     *)
(* the script starts a new run on the filesystem the previous run left.    *)
(***************************************************************************)
EXTENDS Integers, Sequences, FiniteSets, TLC

VARIABLES
    isoforms,       \* the configuration mapping, in insertion order
    pc,             \* the statement about to execute
    it,             \* how many items of isoforms.items() the for loop has taken
    result_entry,   \* the dict being built in the current iteration
    results,        \* the list of appended dicts
    results_df,     \* the DataFrame built from results
    stdout,         \* the lines printed by this run
    exit_status,    \* -1 while running, 0 on normal end, 1 after a traceback
    raised_at,      \* the statement whose exception ended the run ("" if none)
    dir_state,      \* ./structure_analysis_results: "absent", "dir" or "file"
    parent_writable,\* may an entry be created in the working directory
    file_writable,  \* may the csv be opened for writing
    disk_full,      \* does writing the csv body fail with ENOSPC
    file_exists,    \* does the csv exist
    file_lines,     \* the csv as written: a sequence of rows, each a sequence of cells
    start,          \* what the current invocation found on disk
    prev            \* the previous invocation: its exit status, whether it found a csv, the csv it left

vars == <<isoforms, pc, it, result_entry, results, results_df, stdout,
          exit_status, raised_at, dir_state, parent_writable, file_writable,
          disk_full, file_exists, file_lines, start, prev>>

prog == <<pc, it, result_entry, results, results_df, stdout, exit_status, raised_at>>
env  == <<parent_writable, file_writable, disk_full>>
disk == <<dir_state, file_exists, file_lines>>

----------------------------------------------------------------------------
(* Bounds *)

\* largest number of entries of a varied configuration
MaxProteins == 2

----------------------------------------------------------------------------
(* Values *)

\* An optional string is a sequence of at most one string.
None == <<>>
Str(s) == <<s>>

\* Python truthiness of an optional string: None and "" are falsy.
Truthy(v) == v # None /\ v[1] # ""

\* isoforms as written in the source, in insertion order.
Hardcoded ==
    << [protein |-> "CCNB1",    ref_pdb |-> Str("4Y72"), mutation |-> "exon_skip_3",      domain |-> "NES"],
       [protein |-> "ENO2",     ref_pdb |-> Str("2AKZ"), mutation |-> "exon_skip_3",      domain |-> "active_site"],
       [protein |-> "CDK5RAP3", ref_pdb |-> Str("8OJ5"), mutation |-> "intron_retention", domain |-> "LXXLL_motif"],
       [protein |-> "LUC7L",    ref_pdb |-> None,        mutation |-> "exon_skip_2",      domain |-> "RS_domain"] >>

\* Values a varied configuration gives an entry's ref_pdb: absent, the empty
\* string, or the id the source gives that protein.
RefChoices(k) == {None, Str(""), Hardcoded[k].ref_pdb}

\* Entries of varied configurations: an entry of the source with its ref_pdb varied.
Entries ==
    { [Hardcoded[k] EXCEPT !.ref_pdb = r] : <<k, r>> \in
        { <<k, r>> \in (1..Len(Hardcoded)) \X {None, Str(""), Str("4Y72"), Str("2AKZ"), Str("8OJ5")} :
            r \in RefChoices(k) } }

\* A dict has unique keys.
UniqueKeys(m) == \A a, b \in 1..Len(m) : m[a].protein = m[b].protein => a = b

\* The configurations checked: the one of the source, and every mapping of
\* 1..MaxProteins varied entries in every insertion order.
Configs ==
    {Hardcoded} \cup
    UNION { { m \in [1..n -> Entries] : UniqueKeys(m) } : n \in 1..MaxProteins }

\* What a directory holds before the first run: a csv not written by this script.
Stale == << <<"Protein", "Score">>, <<"OLD1", "0.5">>, <<"OLD2", "0.7">> >>

\* Name before first assignment.
Unbound == [Protein |-> "", PDB_ID |-> None, Mutation_Type |-> "", Domain_Affected |-> "", Analysis_Status |-> ""]

\* One printed line: the print statement's source line, its text and, for the
\* rendered table, the number of data rows (the column layout of to_string is
\* not modelled).
Line(stmt, text) == [stmt |-> stmt, text |-> text, rows |-> 0]
Table(stmt, df) == [stmt |-> stmt, text |-> "", rows |-> Len(df.rows)]

\* Before the first invocation there is no previous one.
NoRun == [exit |-> -1, found |-> FALSE, left |-> <<>>]

\* The disk as an invocation finds it.
Snapshot == [dir |-> dir_state, exists |-> file_exists, lines |-> file_lines]

----------------------------------------------------------------------------
(* pandas *)

\* pd.DataFrame(list of dicts): the columns are the keys of the dict literal in
\* the order it writes them, a row holds each dict's values in that order.
DataFrame(rs) ==
    [ columns |-> IF rs = <<>> THEN <<>>
                  ELSE <<"Protein", "PDB_ID", "Mutation_Type", "Domain_Affected", "Analysis_Status">>,
      rows    |-> [ k \in 1..Len(rs) |->
                      << Str(rs[k].Protein), rs[k].PDB_ID, Str(rs[k].Mutation_Type),
                         Str(rs[k].Domain_Affected), Str(rs[k].Analysis_Status) >> ] ]

\* Mutant of CsvCell: a missing value is rendered as str(None).
CsvCellStrNone(v) == IF v = None THEN "None" ELSE v[1]

\* to_csv renders a missing value as na_rep = "" and a string as itself.
CsvCell(v) == IF v = None THEN "" ELSE v[1]

\* to_csv(index=False): the header row, then one row per DataFrame row.
CsvRows(df) ==
    << df.columns >> \o
    [ k \in 1..Len(df.rows) |-> [ c \in 1..Len(df.rows[k]) |-> CsvCell(df.rows[k][c]) ] ]

\* The text of a csv row: its cells joined by commas (no cell of the
\* configurations checked needs quoting).
RECURSIVE CsvText(_)
CsvText(row) ==
    IF row = <<>> THEN ""
    ELSE IF Len(row) = 1 THEN row[1]
    ELSE row[1] \o "," \o CsvText(Tail(row))

Prefixes(s) == { SubSeq(s, 1, n) : n \in 0..(Len(s) - 1) }

\* The permission and space flags an invocation can meet; a flag that cannot
\* matter for the path's state is fixed, so that equal situations are one state.
EnvOK(d, pw, fw, df) ==
    /\ d = "dir" => pw
    /\ d = "absent" => fw
    /\ d = "file" => pw /\ fw /\ ~df
    /\ ~(pw /\ fw) => ~df

----------------------------------------------------------------------------
Init ==
    /\ isoforms \in Configs
    /\ pc = "banner"
    /\ it = 0
    /\ result_entry = Unbound
    /\ results = <<>>
    /\ results_df = DataFrame(<<>>)
    /\ stdout = <<>>
    /\ exit_status = -1
    /\ raised_at = ""
    /\ dir_state \in {"absent", "dir", "file"}
    /\ parent_writable \in BOOLEAN
    /\ file_writable \in BOOLEAN
    /\ disk_full \in BOOLEAN
    /\ file_lines \in {<<>>, Stale}
    /\ file_exists = (file_lines # <<>>)
    /\ file_exists => dir_state = "dir"
    /\ EnvOK(dir_state, parent_writable, file_writable, disk_full)
    /\ start = Snapshot
    /\ prev = NoRun

\* The traceback of an unhandled exception: the interpreter exits with status 1.
Raise(stmt) ==
    /\ pc' = "crashed"
    /\ exit_status' = 1
    /\ raised_at' = stmt

\* line 10
Banner ==
    /\ pc = "banner"
    /\ stdout' = Append(stdout, Line(10, "\n=== Protein Structure Analysis Pipeline ==="))
    /\ pc' = "mkdir"
    /\ UNCHANGED <<isoforms, it, result_entry, results, results_df, exit_status, raised_at, env, disk, start, prev>>

\* Mutant of Mkdir: mkdir() without exist_ok, which raises on an existing directory.
MkdirNoExistOk ==
    /\ pc = "mkdir"
    /\ \/ /\ dir_state = "absent" /\ parent_writable
          /\ dir_state' = "dir"
          /\ pc' = "announce"
          /\ UNCHANGED <<exit_status, raised_at>>
       \/ /\ dir_state # "absent" \/ ~parent_writable
          /\ Raise("mkdir")
          /\ UNCHANGED dir_state
    /\ UNCHANGED <<isoforms, it, result_entry, results, results_df, stdout, env, file_exists, file_lines, start, prev>>

\* line 14: output_dir.mkdir(exist_ok=True), parents=False.  An existing
\* directory is accepted; an existing non-directory raises FileExistsError; a
\* directory that cannot be created raises PermissionError.
Mkdir ==
    /\ pc = "mkdir"
    /\ \/ /\ dir_state = "dir"
          /\ pc' = "announce"
          /\ UNCHANGED <<dir_state, exit_status, raised_at>>
       \/ /\ dir_state = "absent" /\ parent_writable
          /\ dir_state' = "dir"
          /\ pc' = "announce"
          /\ UNCHANGED <<exit_status, raised_at>>
       \/ /\ dir_state = "file" \/ (dir_state = "absent" /\ ~parent_writable)
          /\ Raise("mkdir")
          /\ UNCHANGED dir_state
    /\ UNCHANGED <<isoforms, it, result_entry, results, results_df, stdout, env, file_exists, file_lines, start, prev>>

\* lines 24-27
Announce ==
    /\ pc = "announce"
    /\ stdout' = Append(stdout, Line(24, "\nAnalyzing " \o ToString(Len(isoforms)) \o " proteins with alternative splicing...\n"))
    /\ results' = <<>>
    /\ pc' = "loop"
    /\ UNCHANGED <<isoforms, it, result_entry, results_df, exit_status, raised_at, env, disk, start, prev>>

\* Mutant of ForNext: the loop stops one item early.
ForNextSkipLast ==
    /\ pc = "loop"
    /\ IF it < Len(isoforms) - 1
       THEN it' = it + 1 /\ pc' = "processing"
       ELSE it' = it /\ pc' = "frame"
    /\ UNCHANGED <<isoforms, result_entry, results, results_df, stdout, exit_status, raised_at, env, disk, start, prev>>

\* Mutant of ForNext: results = [] sits inside the loop.
ForNextResets ==
    /\ pc = "loop"
    /\ IF it < Len(isoforms)
       THEN it' = it + 1 /\ pc' = "processing" /\ results' = <<>>
       ELSE it' = it /\ pc' = "frame" /\ results' = results
    /\ UNCHANGED <<isoforms, result_entry, results_df, stdout, exit_status, raised_at, env, disk, start, prev>>

\* line 28: the for statement takes the next item of isoforms.items(), or ends
ForNext ==
    /\ pc = "loop"
    /\ IF it < Len(isoforms)
       THEN it' = it + 1 /\ pc' = "processing"
       ELSE it' = it /\ pc' = "frame"
    /\ UNCHANGED <<isoforms, result_entry, results, results_df, stdout, exit_status, raised_at, env, disk, start, prev>>

protein == isoforms[it].protein
info == isoforms[it]

\* line 29
Processing ==
    /\ pc = "processing"
    /\ stdout' = Append(stdout, Line(29, "Processing " \o protein \o "..."))
    /\ pc' = "build"
    /\ UNCHANGED <<isoforms, it, result_entry, results, results_df, exit_status, raised_at, env, disk, start, prev>>

\* lines 31-37
Build ==
    /\ pc = "build"
    /\ result_entry' = [ Protein |-> protein,
                         PDB_ID |-> info.ref_pdb,
                         Mutation_Type |-> info.mutation,
                         Domain_Affected |-> info.domain,
                         Analysis_Status |-> "Pending AlphaFold2 prediction" ]
    /\ pc' = "annotate"
    /\ UNCHANGED <<isoforms, it, results, results_df, stdout, exit_status, raised_at, env, disk, start, prev>>

\* Mutant of Annotate: the test is "is not None", which takes "" for an id.
AnnotateIfNotNone ==
    /\ pc = "annotate"
    /\ IF info.ref_pdb # None
       THEN result_entry' = [result_entry EXCEPT !.Analysis_Status = "Ready for RMSD/TM-score analysis"]
       ELSE result_entry' = result_entry
    /\ pc' = "append"
    /\ UNCHANGED <<isoforms, it, results, results_df, stdout, exit_status, raised_at, env, disk, start, prev>>

\* lines 39-40
Annotate ==
    /\ pc = "annotate"
    /\ IF Truthy(info.ref_pdb)
       THEN result_entry' = [result_entry EXCEPT !.Analysis_Status = "Ready for RMSD/TM-score analysis"]
       ELSE result_entry' = result_entry
    /\ pc' = "append"
    /\ UNCHANGED <<isoforms, it, results, results_df, stdout, exit_status, raised_at, env, disk, start, prev>>

\* Mutant of AppendEntry: results.insert(0, result_entry).
AppendEntryInFront ==
    /\ pc = "append"
    /\ results' = <<result_entry>> \o results
    /\ pc' = "tick"
    /\ UNCHANGED <<isoforms, it, result_entry, results_df, stdout, exit_status, raised_at, env, disk, start, prev>>

\* Mutant of AppendEntry: the csv is written inside the loop, after each append.
AppendEntryWrites ==
    /\ pc = "append"
    /\ results' = Append(results, result_entry)
    /\ file_exists' = TRUE
    /\ file_lines' = CsvRows(DataFrame(results'))
    /\ pc' = "tick"
    /\ UNCHANGED <<isoforms, it, result_entry, results_df, stdout, exit_status, raised_at, env, dir_state, start, prev>>

\* line 42
AppendEntry ==
    /\ pc = "append"
    /\ results' = Append(results, result_entry)
    /\ pc' = "tick"
    /\ UNCHANGED <<isoforms, it, result_entry, results_df, stdout, exit_status, raised_at, env, disk, start, prev>>

\* Mutant of Tick: the closing print of the iteration is missing.
TickSilent ==
    /\ pc = "tick"
    /\ pc' = "loop"
    /\ UNCHANGED <<isoforms, it, result_entry, results, results_df, stdout, exit_status, raised_at, env, disk, start, prev>>

\* line 43 (the check mark U+2713 of the source is written <U+2713>)
Tick ==
    /\ pc = "tick"
    /\ stdout' = Append(stdout, Line(43, "  <U+2713> " \o protein \o ": " \o info.mutation \o " affecting " \o info.domain))
    /\ pc' = "loop"
    /\ UNCHANGED <<isoforms, it, result_entry, results, results_df, exit_status, raised_at, env, disk, start, prev>>

\* line 46
Frame ==
    /\ pc = "frame"
    /\ results_df' = DataFrame(results)
    /\ pc' = "to_csv"
    /\ UNCHANGED <<isoforms, it, result_entry, results, stdout, exit_status, raised_at, env, disk, start, prev>>

\* Mutant of ToCsv: the file is opened with mode "a".
ToCsvAppends ==
    /\ pc = "to_csv"
    /\ \/ /\ ~file_writable
          /\ Raise("to_csv")
          /\ UNCHANGED <<file_exists, file_lines>>
       \/ /\ file_writable /\ disk_full
          /\ file_exists' = TRUE
          /\ file_lines' \in { file_lines \o q : q \in Prefixes(CsvRows(results_df)) }
          /\ Raise("to_csv")
       \/ /\ file_writable /\ ~disk_full
          /\ file_exists' = TRUE
          /\ file_lines' = file_lines \o CsvRows(results_df)
          /\ pc' = "summary"
          /\ UNCHANGED <<exit_status, raised_at>>
    /\ UNCHANGED <<isoforms, it, result_entry, results, results_df, stdout, env, dir_state, start, prev>>

\* Mutant of ToCsv: the write sits in try/except that swallows OSError.
ToCsvSwallows ==
    /\ pc = "to_csv"
    /\ \/ /\ ~file_writable
          /\ UNCHANGED <<file_exists, file_lines>>
       \/ /\ file_writable /\ disk_full
          /\ file_exists' = TRUE
          /\ file_lines' \in Prefixes(CsvRows(results_df))
       \/ /\ file_writable /\ ~disk_full
          /\ file_exists' = TRUE
          /\ file_lines' = CsvRows(results_df)
    /\ pc' = "summary"
    /\ UNCHANGED <<isoforms, it, result_entry, results, results_df, stdout, exit_status, raised_at, env, dir_state, start, prev>>

\* line 47: to_csv opens the path with mode "w" and writes the rows.  A failed
\* open leaves the disk as it was; the open truncates, so a write that fails
\* for lack of space leaves some proper prefix of the rows.
ToCsv ==
    /\ pc = "to_csv"
    /\ \/ /\ ~file_writable
          /\ Raise("to_csv")
          /\ UNCHANGED <<file_exists, file_lines>>
       \/ /\ file_writable /\ disk_full
          /\ file_exists' = TRUE
          /\ file_lines' \in Prefixes(CsvRows(results_df))
          /\ Raise("to_csv")
       \/ /\ file_writable /\ ~disk_full
          /\ file_exists' = TRUE
          /\ file_lines' = CsvRows(results_df)
          /\ pc' = "summary"
          /\ UNCHANGED <<exit_status, raised_at>>
    /\ UNCHANGED <<isoforms, it, result_entry, results, results_df, stdout, env, dir_state, start, prev>>

\* lines 49-50
Summary ==
    /\ pc = "summary"
    /\ stdout' = stdout \o << Line(49, "\n=== Structural Analysis Plan ==="), Table(50, results_df) >>
    /\ pc' = "next_steps"
    /\ UNCHANGED <<isoforms, it, result_entry, results, results_df, exit_status, raised_at, env, disk, start, prev>>

\* lines 52-63, then the interpreter exits with status 0
NextSteps ==
    /\ pc = "next_steps"
    /\ stdout' = stdout \o
         << Line(52, "\n[PyMOL Integration]"),
            Line(53, "  - RMSD calculation: MSA-based superposition"),
            Line(54, "  - TM-score: Template modeling score (>0.5 = similar fold)"),
            Line(55, "  - Surface area changes: Solvent-accessible surface calculation"),
            Line(56, "  - Domain disruption mapping: InterPro/Pfam domain analysis"),
            Line(58, "\nResults saved to: structure_analysis_results"),
            Line(59, "\nNext Steps:"),
            Line(60, "  1. Run AlphaFold2 predictions for alternative isoforms"),
            Line(61, "  2. PyMOL: pymol -c script_compare_structures.pml"),
            Line(62, "  3. Calculate RMSD and TM-scores"),
            Line(63, "  4. Generate publication figures\n") >>
    /\ pc' = "done"
    /\ exit_status' = 0
    /\ UNCHANGED <<isoforms, it, result_entry, results, results_df, raised_at, env, disk, start, prev>>

\* The script is invoked again: a fresh interpreter on the disk as the last
\* run left it, under the same permissions and free space or with both restored.
Rerun ==
    /\ pc \in {"done", "crashed"}
    /\ prev' = [exit |-> exit_status, found |-> start.exists, left |-> file_lines]
    /\ start' = Snapshot
    /\ pc' = "banner"
    /\ it' = 0
    /\ result_entry' = Unbound
    /\ results' = <<>>
    /\ results_df' = DataFrame(<<>>)
    /\ stdout' = <<>>
    /\ exit_status' = -1
    /\ raised_at' = ""
    /\ \/ UNCHANGED env
       \/ parent_writable' = TRUE /\ file_writable' = TRUE /\ disk_full' = FALSE
    /\ UNCHANGED <<isoforms, disk>>

\* One statement of the running script.
Step ==
    \/ Banner
    \/ Mkdir
    \/ Announce
    \/ ForNext
    \/ Processing
    \/ Build
    \/ Annotate
    \/ AppendEntry
    \/ Tick
    \/ Frame
    \/ ToCsv
    \/ Summary
    \/ NextSteps

Next == Step \/ Rerun

Spec == Init /\ [][Next]_vars

\* The interpreter runs the script to its end: a statement that can execute does.
LiveSpec == Spec /\ WF_vars(Step)

----------------------------------------------------------------------------
(* What the properties are stated with *)

StatusReady == "Ready for RMSD/TM-score analysis"
StatusPending == "Pending AlphaFold2 prediction"
Header == <<"Protein", "PDB_ID", "Mutation_Type", "Domain_Affected", "Analysis_Status">>

\* the configuration entry of a protein name
EntryOf(name) == CHOOSE e \in { isoforms[k] : k \in 1..Len(isoforms) } : e.protein = name

\* a reference structure id is present and not the empty string
HasRef(e) == e.ref_pdb # None /\ e.ref_pdb # Str("")

ExpectedStatus(e) == IF HasRef(e) THEN StatusReady ELSE StatusPending

ExpectedRecord(e) ==
    [ Protein |-> e.protein, PDB_ID |-> e.ref_pdb, Mutation_Type |-> e.mutation,
      Domain_Affected |-> e.domain, Analysis_Status |-> ExpectedStatus(e) ]

ExpectedRow(e) ==
    << e.protein, IF e.ref_pdb = None THEN "" ELSE e.ref_pdb[1], e.mutation, e.domain, ExpectedStatus(e) >>

ExpectedTable == << Header >> \o [ k \in 1..Len(isoforms) |-> ExpectedRow(isoforms[k]) ]

\* number of printed lines that come from the print statements at the given source lines
Count(stmts) == Cardinality({ k \in 1..Len(stdout) : stdout[k].stmt \in stmts })

InIteration == {"processing", "build", "annotate", "append", "tick"}
AfterLoop == {"frame", "to_csv", "summary", "next_steps", "done"}
\* to_csv has returned
Written == pc \in {"summary", "next_steps", "done"}
SummaryLines == {49, 50, 52, 53, 54, 55, 56, 58, 59, 60, 61, 62, 63}

\* nothing the run depends on fails
FaultFree == dir_state # "file" /\ parent_writable /\ file_writable /\ ~disk_full

----------------------------------------------------------------------------
(* Properties *)

\* C1: after a successful run the written table has exactly one data row per
\* configured protein: as many data rows as entries of isoforms, every
\* configured name in the Protein column, and no name twice.
C1_OneRowPerProtein ==
    Written =>
        /\ file_exists
        /\ Len(file_lines) = Len(isoforms) + 1
        /\ \A k \in 1..Len(isoforms) : \E j \in 2..Len(file_lines) : file_lines[j][1] = isoforms[k].protein
        /\ \A i, j \in 2..Len(file_lines) : file_lines[i][1] = file_lines[j][1] => i = j

C1_Witness == pc = "done" /\ Len(isoforms) = 2 /\ Len(file_lines) = 3 /\ start.exists

\* C2: every record's Analysis_Status is the Ready string exactly when its
\* protein's reference structure id is present and non-empty, and the Pending
\* string otherwise, in the results list and in the written file.
C2_StatusIffReference ==
    /\ \A k \in 1..Len(results) :
          LET e == EntryOf(results[k].Protein) IN
          /\ results[k].Analysis_Status = StatusReady <=> HasRef(e)
          /\ results[k].Analysis_Status = StatusPending <=> ~HasRef(e)
    /\ Written =>
          \A j \in 2..Len(file_lines) :
              LET e == EntryOf(file_lines[j][1]) IN
              /\ file_lines[j][5] = StatusReady <=> HasRef(e)
              /\ file_lines[j][5] = StatusPending <=> ~HasRef(e)

C2_Witness ==
    /\ pc = "done"
    /\ \E a, b \in 1..Len(results) :
          /\ isoforms[a].ref_pdb = Str("") /\ results[a].Analysis_Status = StatusPending
          /\ isoforms[b].ref_pdb # None /\ results[b].Analysis_Status = StatusReady

\* C3: at every step of the loop the results list is the image of the prefix
\* of isoforms processed so far, and the i-th data row of the written file is
\* the record of the i-th configured protein.
C3_ConfigurationOrder ==
    /\ Len(results) = (IF pc \in {"processing", "build", "annotate", "append"} THEN it - 1 ELSE it)
    /\ Len(results) <= Len(isoforms)
    /\ \A k \in 1..Len(results) : results[k] = ExpectedRecord(isoforms[k])
    /\ Written =>
          \A k \in 1..Len(isoforms) :
              /\ Len(file_lines) > k
              /\ file_lines[k + 1][1] = isoforms[k].protein

C3_Witness == pc = "build" /\ it = 2 /\ Len(results) = 1 /\ results[1].Protein = isoforms[1].protein

\* C4: each written row carries the protein's name, reference id, mutation type
\* and domain unchanged, in the column order Protein, PDB_ID, Mutation_Type,
\* Domain_Affected, Analysis_Status; PDB_ID is empty exactly for a protein with
\* no reference structure; the CCNB1 and LUC7L rows read as the scenarios say.
C4_RowContents ==
    Written =>
        /\ file_lines[1] = Header
        /\ CsvText(file_lines[1]) = "Protein,PDB_ID,Mutation_Type,Domain_Affected,Analysis_Status"
        /\ \A k \in 1..Len(isoforms) :
              /\ Len(file_lines) > k
              /\ LET e == isoforms[k]
                     row == file_lines[k + 1]
                 IN /\ Len(row) = 5
                    /\ row[1] = e.protein
                    /\ row[3] = e.mutation
                    /\ row[4] = e.domain
                    /\ row[5] \in {StatusReady, StatusPending}
                    /\ row[2] = "" <=> ~HasRef(e)
                    /\ HasRef(e) => row[2] = e.ref_pdb[1]
                    /\ (e.protein = "CCNB1" /\ e.ref_pdb = Str("4Y72")) =>
                          CsvText(row) = "CCNB1,4Y72,exon_skip_3,NES,Ready for RMSD/TM-score analysis"
                    /\ (e.protein = "LUC7L" /\ e.ref_pdb = None) =>
                          CsvText(row) = "LUC7L,,exon_skip_2,RS_domain,Pending AlphaFold2 prediction"

C4_Witness ==
    /\ pc = "done"
    /\ \E a, b \in 1..Len(isoforms) :
          /\ isoforms[a].protein = "CCNB1" /\ isoforms[a].ref_pdb = Str("4Y72")
          /\ isoforms[b].protein = "LUC7L" /\ isoforms[b].ref_pdb = None
          /\ file_lines[b + 1][2] = ""

\* C5: a run that succeeds right after a run that succeeded leaves the file
\* exactly as that run left it, whatever the file held before the first of them.
C5_RerunIdentical ==
    (Written /\ prev.exit = 0) => (file_exists /\ file_lines = prev.left)

C5_Witness == pc = "done" /\ prev.exit = 0 /\ prev.found /\ start.exists /\ file_lines = ExpectedTable

\* C6: a run that finds the directory and a prior file in it gets no error
\* from that: mkdir raises nothing and changes nothing, the file is untouched
\* until to_csv, and to_csv replaces it by exactly the new table, no row of a
\* foreign prior file remaining.
C6_ExistingDirectoryAndFile ==
    (start.dir = "dir" /\ start.exists) =>
        /\ raised_at # "mkdir"
        /\ dir_state = "dir"
        /\ pc \notin {"crashed", "summary", "next_steps", "done"} =>
              (file_exists /\ file_lines = start.lines)
        /\ (file_writable /\ ~disk_full) => pc # "crashed"
        /\ Written =>
              /\ file_lines = ExpectedTable
              /\ start.lines = Stale =>
                    \A j \in 1..Len(file_lines) : \A q \in 1..Len(Stale) : file_lines[j] # Stale[q]

C6_Witness == pc = "done" /\ start.dir = "dir" /\ start.lines = Stale /\ file_lines = ExpectedTable

\* C7: a failed mkdir or a failed file write ends the run with a non-zero
\* status and nothing after it executes: after a failed mkdir no record is
\* built and the disk is as found; after a failed write no summary table, no
\* "Results saved to" line and no next-steps block is printed; a run that met
\* a fault never reaches a later statement.
C7_FaultsPropagate ==
    /\ [](/\ pc = "crashed" => (exit_status = 1 /\ raised_at \in {"mkdir", "to_csv"})
          /\ pc # "crashed" => raised_at = ""
          /\ (start.dir = "file" \/ (start.dir = "absent" /\ ~parent_writable)) =>
                (pc \in {"banner", "mkdir", "crashed"} /\ raised_at \in {"", "mkdir"})
          /\ raised_at = "mkdir" =>
                /\ results = <<>> /\ it = 0 /\ results_df = DataFrame(<<>>)
                /\ Snapshot = start
                /\ \A k \in 1..Len(stdout) : stdout[k].stmt = 10
          /\ (~file_writable \/ disk_full) => ~Written
          /\ raised_at = "to_csv" => Count(SummaryLines) = 0)
    /\ [][pc = "crashed" => (UNCHANGED <<prog, disk>> \/ pc' = "banner")]_vars

C7_Witness ==
    /\ pc = "crashed" /\ raised_at = "to_csv" /\ disk_full
    /\ Len(results) = Len(isoforms) /\ Len(file_lines) = 1

\* C8 as stated: once the loop has ended, the number of lines printed inside
\* the loop equals the number of configured proteins.
C8_OneLinePerRecord ==
    pc \in AfterLoop => Count({29, 43}) = Len(isoforms)

\* C8 as amended: every iteration prints two lines, the "Processing" line
\* before its record is built and the check-mark line after its record is
\* appended; once the loop has ended there are twice as many loop lines as
\* configured proteins, the k-th of each kind naming the k-th protein.
C8_TwoLinesPerRecord ==
    /\ Count({29}) = Len(results) + (IF pc \in {"build", "annotate", "append"} THEN 1 ELSE 0)
    /\ Count({43}) = Len(results) - (IF pc = "tick" THEN 1 ELSE 0)
    /\ pc \in AfterLoop => Count({29, 43}) = 2 * Len(isoforms)
    /\ \A k \in 1..Len(stdout) :
          LET nth(st) == Cardinality({ j \in 1..k : stdout[j].stmt = st }) IN
          /\ stdout[k].stmt = 29 =>
                stdout[k].text = "Processing " \o isoforms[nth(29)].protein \o "..."
          /\ stdout[k].stmt = 43 =>
                /\ nth(43) = nth(29)
                /\ nth(43) <= Len(results)
                /\ stdout[k].text = "  <U+2713> " \o results[nth(43)].Protein \o ": "
                                     \o results[nth(43)].Mutation_Type \o " affecting "
                                     \o results[nth(43)].Domain_Affected

C8_Witness == pc = "done" /\ Len(isoforms) = 2 /\ Count({29}) = 2 /\ Count({43}) = 2

\* C9: within a run the results list changes only by the append of line 42,
\* which adds one record at the end and leaves the earlier records as they
\* are; the DataFrame changes only when it is built; the configuration mapping
\* never changes.
C9_NoMutationAfterConstruction ==
    [][ /\ isoforms' = isoforms
        /\ pc' # "banner" =>
              /\ results' # results =>
                    /\ pc = "append"
                    /\ Len(results') = Len(results) + 1
                    /\ SubSeq(results', 1, Len(results)) = results
              /\ results_df' # results_df => pc = "frame"
      ]_vars

C9_Witness == pc = "done" /\ Len(results) = 2 /\ results[1] # results[2] /\ Len(results_df.rows) = 2

\* C10: with nothing failing, a run never ends in a traceback, does one
\* iteration per configured protein, changes the directory only in mkdir and
\* the file only in to_csv after every record is built, prints the table and
\* the next-steps block once, and always reaches its end with status 0.
C10_LinearPassTerminates ==
    /\ [](FaultFree => pc # "crashed")
    /\ [](pc \in AfterLoop => (it = Len(isoforms) /\ Len(results) = Len(isoforms) /\ Count({29}) = Len(isoforms)))
    /\ [](pc = "done" => (/\ exit_status = 0
                          /\ Count({50}) = 1 /\ Count({59}) = 1
                          /\ stdout[Len(stdout)].stmt = 63
                          /\ file_lines = CsvRows(results_df)))
    /\ [][(file_lines' # file_lines \/ file_exists' # file_exists) =>
              (pc = "to_csv" /\ Len(results) = Len(isoforms))]_vars
    /\ [][dir_state' # dir_state => (pc = "mkdir" /\ dir_state = "absent")]_vars
    /\ ((FaultFree /\ pc = "banner") ~> (pc = "done" /\ exit_status = 0))

C10_Witness == pc = "done" /\ exit_status = 0 /\ start.dir = "absent" /\ Len(isoforms) = 4
====
